---- MODULE Spec2Model ----
(***************************************************************************)
(* HLSDownloader (pkg/hlsDownloader.go): the segment acquisition pipeline. *)
(* One Download call: the coordinator (processSegments), the feeder        *)
(* (prepareSegments), the workers (downloadSegments), the observer (the    *)
(* goroutine waiting on the WaitGroup), then join and the deferred removal *)
(* of the staging directory.  Channels are unbuffered: a send and its      *)
(* receive are one rendezvous step.  The HTTP server, the file system and  *)
(* the network are the environment: their outcomes are chosen with \E.     *)
(***************************************************************************)
EXTENDS Integers, Sequences, FiniteSets, TLC

(* ---- bounds of the model ---- *)
MaxWorkers == 2
MaxSegs == 2
MaxJoinSeq == 2
MaxSetArg == 10
MaxBlocks == 2

(* ---- program constants ---- *)
defaultWorkers == 5
maxAttempts == 3
syncByte == 71

VARIABLES
    workers,      \* h.workers
    lastSet,      \* the last SetWorkers call: [n: its argument, err: "none" (no call yet), "nil", "error"]
    bar,          \* h.bar != nil
    increments,   \* calls of h.bar.Increment(), per SeqId
    segments,     \* the []*segment slice of Download: descriptors, in slice order
    pcMain,       \* where the goroutine that called Download stands
    mainErr,      \* the failing result the coordinator holds (result.err)
    psRet,        \* what processSegments returned
    ret,          \* what Download returned: [path, err]
    tmpDir,       \* the staging directory h.tmpDir exists
    staged,       \* the staging files, per SeqId (seg<SeqId>.ts): [exists, data]
    names,        \* RemoveAll: the names Readdirnames returned, not yet unlinked
    abort,        \* wc.abort is closed
    segClosed,    \* wc.segments is closed
    resClosed,    \* wc.downloadResult is closed
    fpc, fidx,    \* the feeder: its place, and the index of the descriptor in hand
    wpc,          \* each worker's place
    wseg,         \* the SeqId of the descriptor a worker holds
    attempts,     \* a worker's retry counter
    wres,         \* the error of the result a worker is sending ("" = none)
    opc,          \* the observer's place
    panicked,     \* the run-time panic that ended the process ("" = none)
    received,     \* results the coordinator received, per SeqId
    firstErr,     \* the first failing result the coordinator received
    lateTaken,    \* SeqIds handed to a worker while abort was already set
    jidx,         \* join: index of the descriptor in hand
    jdata,        \* join: the bytes decrypt returned for it
    output,       \* the output file h.output: [exists, data]
    joined,       \* join: SeqIds whose payload was appended, in order
    joinInput     \* join: the SeqIds of the list as join received it

vars == << workers, lastSet, bar, increments, segments, pcMain, mainErr, psRet,
           ret, tmpDir, staged, names, abort, segClosed, resClosed, fpc, fidx, wpc,
           wseg, attempts, wres, opc, panicked, received, firstErr, lateTaken,
           jidx, jdata, output, joined, joinInput >>

configVars == << bar, increments, segments, pcMain, mainErr, psRet,
           ret, tmpDir, staged, names, abort, segClosed, resClosed, fpc, fidx, wpc,
           wseg, attempts, wres, opc, panicked, received, firstErr, lateTaken,
           jidx, jdata, output, joined, joinInput >>

fetchVars == << abort, segClosed, resClosed, fpc, fidx, wpc, wseg, attempts,
           wres, opc, received, firstErr, lateTaken, increments, mainErr >>

joinVars == << jidx, jdata, output, joined, joinInput >>

(***************************************************************************)
(* Bytes, and the pure functions of the decryption unit.                   *)
(***************************************************************************)
blockSize == 16

JoinSeqIds == 0 .. MaxJoinSeq

SeqIds == (0 .. (MaxSegs - 1)) \cup JoinSeqIds

RECURSIVE XorByte(_, _)
XorByte(a, b) ==
    IF a = 0 THEN b
    ELSE IF b = 0 THEN a
    ELSE (((a % 2) + (b % 2)) % 2) + (2 * XorByte(a \div 2, b \div 2))


\* n >> (8 * k)
RECURSIVE shiftRight8(_, _)
shiftRight8(n, k) == IF k = 0 THEN n ELSE shiftRight8(n \div 256, k - 1)

\* binary.BigEndian.PutUint64(buf[8:], seqID) on 16 zero bytes
defaultIV(seqID) ==
    [i \in 1 .. 16 |-> IF i <= 8 THEN 0 ELSE shiftRight8(seqID, 16 - i) % 256]

(***************************************************************************)
(* The block cipher of aes.NewCipher(key): AES (FIPS-197) on 16-byte       *)
(* blocks, with a key of 16, 24 or 32 bytes.  A block is kept as the       *)
(* sequence of its 16 bytes, bytes 4c+1 .. 4c+4 being column c.            *)
(***************************************************************************)
\* a function on 1 .. n as the sequence of its values
AsSeq(f, n) == SubSeq(f, 1, n)

\* the tables below are indexed by the byte value plus one
xorTable ==
    AsSeq([a \in 1 .. 256 |->
             AsSeq([b \in 1 .. 256 |-> XorByte(a - 1, b - 1)], 256)], 256)

Xor(a, b) == xorTable[a + 1][b + 1]

\* the S-box, for the byte values 0 .. 255 in order
SBox ==
    << 99, 124, 119, 123, 242, 107, 111, 197, 48, 1, 103, 43, 254, 215, 171, 118,
    202, 130, 201, 125, 250, 89, 71, 240, 173, 212, 162, 175, 156, 164, 114, 192,
    183, 253, 147, 38, 54, 63, 247, 204, 52, 165, 229, 241, 113, 216, 49, 21,
    4, 199, 35, 195, 24, 150, 5, 154, 7, 18, 128, 226, 235, 39, 178, 117,
    9, 131, 44, 26, 27, 110, 90, 160, 82, 59, 214, 179, 41, 227, 47, 132,
    83, 209, 0, 237, 32, 252, 177, 91, 106, 203, 190, 57, 74, 76, 88, 207,
    208, 239, 170, 251, 67, 77, 51, 133, 69, 249, 2, 127, 80, 60, 159, 168,
    81, 163, 64, 143, 146, 157, 56, 245, 188, 182, 218, 33, 16, 255, 243, 210,
    205, 12, 19, 236, 95, 151, 68, 23, 196, 167, 126, 61, 100, 93, 25, 115,
    96, 129, 79, 220, 34, 42, 144, 136, 70, 238, 184, 20, 222, 94, 11, 219,
    224, 50, 58, 10, 73, 6, 36, 92, 194, 211, 172, 98, 145, 149, 228, 121,
    231, 200, 55, 109, 141, 213, 78, 169, 108, 86, 244, 234, 101, 122, 174, 8,
    186, 120, 37, 46, 28, 166, 180, 198, 232, 221, 116, 31, 75, 189, 139, 138,
    112, 62, 181, 102, 72, 3, 246, 14, 97, 53, 87, 185, 134, 193, 29, 158,
    225, 248, 152, 17, 105, 217, 142, 148, 155, 30, 135, 233, 206, 85, 40, 223,
    140, 161, 137, 13, 191, 230, 66, 104, 65, 153, 45, 15, 176, 84, 187, 22 >>

InvSBox ==
    AsSeq([y \in 1 .. 256 |-> (CHOOSE x \in 1 .. 256 : SBox[x] = y - 1) - 1], 256)

\* multiplication in GF(2^8) by 2, and by the coefficients of MixColumns and
\* InvMixColumns
xtime(a) == IF a < 128 THEN 2 * a ELSE Xor((2 * a) % 256, 27)

mul2 == AsSeq([a \in 1 .. 256 |-> xtime(a - 1)], 256)

times2(a) == mul2[a + 1]

mul3 == AsSeq([a \in 1 .. 256 |-> Xor(times2(a - 1), a - 1)], 256)

mul9 == AsSeq([a \in 1 .. 256 |-> Xor(times2(times2(times2(a - 1))), a - 1)], 256)

mul11 ==
    AsSeq([a \in 1 .. 256 |->
             Xor(Xor(times2(times2(times2(a - 1))), times2(a - 1)), a - 1)], 256)

mul13 ==
    AsSeq([a \in 1 .. 256 |->
             Xor(Xor(times2(times2(times2(a - 1))), times2(times2(a - 1))), a - 1)], 256)

mul14 ==
    AsSeq([a \in 1 .. 256 |->
             Xor(Xor(times2(times2(times2(a - 1))), times2(times2(a - 1))),
                 times2(a - 1))], 256)

\* The element of a one-element set.  In Only({e(v) : v \in {x}}) the value
\* of x is computed once, whatever e does with it.
Only(S) == CHOOSE y \in S : TRUE

AddRoundKey(st, rk) ==
    Only({AsSeq([i \in 1 .. 16 |-> Xor(p[1][i], p[2][i])], 16) : p \in {<< st, rk >>}})

SubBytes(st) == Only({AsSeq([i \in 1 .. 16 |-> SBox[s[i] + 1]], 16) : s \in {st}})

InvSubBytes(st) == Only({AsSeq([i \in 1 .. 16 |-> InvSBox[s[i] + 1]], 16) : s \in {st}})

\* row r of the block moves r columns to the left
ShiftRows(st) ==
    Only({AsSeq([i \in 1 .. 16 |->
                   LET r == (i - 1) % 4
                       c == (i - 1) \div 4
                   IN  s[r + (4 * ((c + r) % 4)) + 1]], 16) : s \in {st}})

InvShiftRows(st) ==
    Only({AsSeq([i \in 1 .. 16 |->
                   LET r == (i - 1) % 4
                       c == (i - 1) \div 4
                   IN  s[r + (4 * ((c - r + 4) % 4)) + 1]], 16) : s \in {st}})

MixColumns(st) ==
    Only({AsSeq([i \in 1 .. 16 |->
                   LET r == (i - 1) % 4
                       c == (i - 1) \div 4
                       a(k) == s[(4 * c) + ((r + k) % 4) + 1]
                   IN  Xor(Xor(mul2[a(0) + 1], mul3[a(1) + 1]), Xor(a(2), a(3)))],
                16) : s \in {st}})

InvMixColumns(st) ==
    Only({AsSeq([i \in 1 .. 16 |->
                   LET r == (i - 1) % 4
                       c == (i - 1) \div 4
                       a(k) == s[(4 * c) + ((r + k) % 4) + 1]
                   IN  Xor(Xor(mul14[a(0) + 1], mul11[a(1) + 1]),
                           Xor(mul13[a(2) + 1], mul9[a(3) + 1]))],
                16) : s \in {st}})

Rcon == << 1, 2, 4, 8, 16, 32, 64, 128, 27, 54 >>

SubWord(w) == << SBox[w[1] + 1], SBox[w[2] + 1], SBox[w[3] + 1], SBox[w[4] + 1] >>

RotWord(w) == << w[2], w[3], w[4], w[1] >>

XorWord(v, w) == << Xor(v[1], w[1]), Xor(v[2], w[2]), Xor(v[3], w[3]), Xor(v[4], w[4]) >>

\* the word that follows the words ws of a key schedule, Nk the number of
\* words of the key
nextWord(ws, Nk) ==
    LET i == Len(ws)
        temp == IF i % Nk = 0
                THEN Only({XorWord(t, << Rcon[i \div Nk], 0, 0, 0 >>) :
                             t \in {SubWord(RotWord(ws[i]))}})
                ELSE IF Nk > 6 /\ i % Nk = 4 THEN SubWord(ws[i])
                ELSE ws[i]
    IN  Only({XorWord(ws[i - Nk + 1], t) : t \in {temp}})

\* the key schedule: words is w[0 .. i-1]
RECURSIVE expandKey(_, _, _)
expandKey(words, Nk, total) ==
    Only({IF Len(ws) >= total THEN ws
          ELSE expandKey(Only({Append(ws, n) : n \in {nextWord(ws, Nk)}}), Nk, total) :
             ws \in {words}})

KeySchedule(key) ==
    Only({expandKey(AsSeq([i \in 1 .. (Len(k) \div 4) |->
                             << k[(4 * i) - 3], k[(4 * i) - 2], k[(4 * i) - 1], k[4 * i] >>],
                          Len(k) \div 4),
                    Len(k) \div 4, Len(k) + 28) : k \in {key}})

RoundKey(w, r) == w[(4 * r) + 1] \o w[(4 * r) + 2] \o w[(4 * r) + 3] \o w[(4 * r) + 4]

\* rounds r .. Nr of the cipher on the state st, w a key schedule
RECURSIVE encryptRounds(_, _, _, _)
encryptRounds(st, w, r, Nr) ==
    Only({IF r = Nr THEN AddRoundKey(ShiftRows(SubBytes(s)), RoundKey(w, r))
          ELSE encryptRounds(
                   AddRoundKey(MixColumns(ShiftRows(SubBytes(s))), RoundKey(w, r)),
                   w, r + 1, Nr) : s \in {st}})

\* rounds r .. 0 of the inverse cipher
RECURSIVE decryptRounds(_, _, _)
decryptRounds(st, w, r) ==
    Only({IF r = 0 THEN AddRoundKey(InvSubBytes(InvShiftRows(s)), RoundKey(w, 0))
          ELSE decryptRounds(
                   InvMixColumns(AddRoundKey(InvSubBytes(InvShiftRows(s)), RoundKey(w, r))),
                   w, r - 1) : s \in {st}})

\* the number of rounds for a key
rounds(key) == (Len(key) \div 4) + 6

\* block.Encrypt, as the origin applied it
BlockEncrypt(key, b) ==
    Only({encryptRounds(AddRoundKey(b, RoundKey(w, 0)), w, 1, rounds(key)) :
             w \in {KeySchedule(key)}})

\* block.Decrypt
BlockDecrypt(key, b) ==
    Only({decryptRounds(AddRoundKey(b, RoundKey(w, rounds(key))), w, rounds(key) - 1) :
             w \in {KeySchedule(key)}})

XorBlock(x, y) ==
    Only({AsSeq([i \in 1 .. blockSize |-> Xor(p[1][i], p[2][i])], blockSize) :
             p \in {<< x, y >>}})

Block(data, j) == SubSeq(data, (j - 1) * blockSize + 1, j * blockSize)

\* cap(b) of a byte slice of length n made by []byte(s) or make([]byte, n):
\* the allocator rounds the length up to its size class (8, 16, then at
\* least n), and the bytes between the length and the capacity are zero
capOfBytes(n) == IF n = 0 THEN 0 ELSE IF n <= 8 THEN 8 ELSE IF n <= 16 THEN 16 ELSE n

\* iv[:blockSize], for an iv whose capacity is at least blockSize
ivBlock(iv) == [i \in 1 .. blockSize |-> IF i <= Len(iv) THEN iv[i] ELSE 0]

\* cipher.NewCBCDecrypter(block, iv[:blockSize]).CryptBlocks(origData, crypted)
RECURSIVE CBCDecrypt(_, _, _)
CBCDecrypt(key, iv, crypted) ==
    IF Len(crypted) = 0 THEN << >>
    ELSE LET n == Len(crypted) \div blockSize
             prev == IF n = 1 THEN ivBlock(iv) ELSE Block(crypted, n - 1)
         IN  CBCDecrypt(key, iv, SubSeq(crypted, 1, (n - 1) * blockSize))
                 \o XorBlock(BlockDecrypt(key, Block(crypted, n)), prev)

\* What the origin did to produce an encrypted segment (the environment).
RECURSIVE CBCEncrypt(_, _, _)
CBCEncrypt(key, iv, plain) ==
    IF Len(plain) = 0 THEN << >>
    ELSE LET n == Len(plain) \div blockSize
             head == CBCEncrypt(key, iv, SubSeq(plain, 1, (n - 1) * blockSize))
             prev == IF n = 1 THEN SubSeq(iv, 1, blockSize) ELSE Block(head, n - 1)
         IN  head \o BlockEncrypt(key, XorBlock(Block(plain, n), prev))

Pad(plain) ==
    LET k == blockSize - (Len(plain) % blockSize)
    IN  plain \o [i \in 1 .. k |-> k]

\* pkcs5UnPadding: origData[:(length - unPadding)]
pkcs5UnPadding(origData) ==
    LET length == Len(origData)
        unPadding == origData[length]
    IN  SubSeq(origData, 1, length - unPadding)

\* The run-time panic of decryptAES128 ("" = none).  A key aes.NewCipher
\* refuses makes it return the error before anything can panic; then
\* iv[:blockSize] on an iv whose capacity is below blockSize, CryptBlocks on
\* input that is not full blocks, origData[length-1] on an empty buffer, a
\* negative slice bound in pkcs5UnPadding.
decryptPanic(crypted, key, iv) ==
    IF Len(key) \notin {16, 24, 32} THEN ""
    ELSE IF capOfBytes(Len(iv)) < blockSize THEN "slice bounds out of range"
    ELSE IF Len(crypted) % blockSize # 0 THEN "input not full blocks"
    ELSE IF Len(crypted) = 0 THEN "index out of range"
    ELSE LET d == CBCDecrypt(key, iv, crypted)
         IN  IF d[Len(d)] > Len(d) THEN "slice bounds out of range" ELSE ""

decryptPanics(crypted, key, iv) == decryptPanic(crypted, key, iv) # ""

\* decryptAES128(crypted, key, iv); aes.NewCipher refuses a key that is not
\* 16, 24 or 32 bytes long.
decryptAES128(crypted, key, iv) ==
    IF Len(key) \notin {16, 24, 32} THEN [err |-> "cipher", data |-> << >>]
    ELSE [err |-> "", data |-> pkcs5UnPadding(CBCDecrypt(key, iv, crypted))]

\* the loop at the end of decrypt: drop what precedes the first sync byte
trimSync(data) ==
    LET hits == {j \in 1 .. Len(data) : data[j] = syncByte}
    IN  IF hits = {} THEN data
        ELSE LET first == CHOOSE j \in hits : \A k \in hits : j <= k
             IN  SubSeq(data, first, Len(data))

(***************************************************************************)
(* Segment descriptors, and the origin server they point to.               *)
(***************************************************************************)
NoPath == -1
NoSeq == -1

\* the staging file of prepareSegments: filepath.Join(h.tmpDir, "seg<SeqId>.ts"),
\* named here by its SeqId
segName(seqId) == seqId

\* The IV attribute of a key is text: "0x" and 32 hexadecimal digits, kept
\* here as the character codes of the string.  hexChar and HexText are how
\* the origin writes its 16-byte IV into the playlist, hexValue and HexBytes
\* the value that text stands for.
hexChar(v) == IF v < 10 THEN 48 + v ELSE 87 + v
hexValue(c) == IF c >= 97 THEN c - 87 ELSE IF c >= 65 THEN c - 55 ELSE c - 48

HexText(bytes) ==
    << 48, 120 >> \o [j \in 1 .. (2 * Len(bytes)) |->
                       IF j % 2 = 1 THEN hexChar(bytes[(j + 1) \div 2] \div 16)
                       ELSE hexChar(bytes[j \div 2] % 16)]

HexBytes(text) ==
    [i \in 1 .. ((Len(text) - 2) \div 2) |->
        (16 * hexValue(text[2 * i + 1])) + hexValue(text[2 * i + 2])]

NoKey == [present |-> FALSE, IV |-> << >>]
ExplicitIV == [i \in 1 .. 16 |-> 100 + i]
ServerKey == [i \in 1 .. 16 |-> (7 * i) % 256]

\* The descriptor of one playlist entry as the playlist decoder gives it,
\* wrapped with an empty segment.path.  An entry carries a Key of its own
\* only when an EXT-X-KEY tag stands right before it: "enc" is such an entry
\* with a key without IV attribute, "enciv" one with a key with an IV;
\* "encnext" is an entry the origin encrypted under the key in force, with no
\* tag of its own; "ts" and "junk" are entries the origin did not encrypt.
NewSegment(seqId, uri) ==
    [SeqId |-> seqId, URI |-> uri,
     Key |-> IF uri = "enc" THEN [present |-> TRUE, IV |-> << >>]
             ELSE IF uri = "enciv" THEN [present |-> TRUE, IV |-> HexText(ExplicitIV)]
             ELSE NoKey,
     path |-> NoPath]

\* mediaList.Key: the key of the first EXT-X-KEY tag of the playlist
playlistKey(entries) ==
    LET keyed == {i \in 1 .. Len(entries) : entries[i].Key.present}
    IN  IF keyed = {} THEN NoKey
        ELSE entries[CHOOSE i \in keyed : \A j \in keyed : i <= j].Key

\* parseHLSSegments: every entry without a Key of its own is given the
\* playlist's
parseHLSSegments(entries) ==
    [i \in 1 .. Len(entries) |->
        IF ~entries[i].Key.present /\ playlistKey(entries).present
        THEN [entries[i] EXCEPT !.Key = playlistKey(entries)]
        ELSE entries[i]]

\* The IV the origin encrypted a segment with: the value of the IV attribute
\* when the key carries one, the segment's sequence number otherwise.
OriginIV(seg) ==
    IF Len(seg.Key.IV) = 0 THEN defaultIV(seg.SeqId) ELSE HexBytes(seg.Key.IV)

Payload(seqId) == << syncByte, 10 + seqId, 20 + seqId >>

\* the body the origin made for a URI: the payload as it is ("ts"), after two
\* bytes that are no sync byte ("junk"), or encrypted under ServerKey with
\* the IV of the key in force
originBody(seqId, uri, key) ==
    CASE uri = "ts" -> Payload(seqId)
      [] uri = "junk" -> << 0, 1 >> \o Payload(seqId)
      [] uri = "enc" ->
            CBCEncrypt(ServerKey, defaultIV(seqId), Pad(<< 2 >> \o Payload(seqId)))
      [] uri = "enciv" ->
            CBCEncrypt(ServerKey, ExplicitIV, Pad(Payload(seqId)))
      [] uri = "encnext" ->
            IF key.present
            THEN CBCEncrypt(ServerKey, OriginIV([SeqId |-> seqId, Key |-> key]),
                            Pad(<< 2 >> \o Payload(seqId)))
            ELSE << 2 >> \o Payload(seqId)

URIs == {"ts", "junk", "enc", "enciv", "encnext"}

\* the keys a descriptor can carry
Keys == {NoKey, [present |-> TRUE, IV |-> << >>],
         [present |-> TRUE, IV |-> HexText(ExplicitIV)]}

\* The origin: the bodies are made before the run, one for every URI.
Origin ==
    {[seqId |-> s, uri |-> u, key |-> k, body |-> originBody(s, u, k)] :
        s \in SeqIds, u \in URIs, k \in Keys}

\* the body the origin serves for a segment's URI
ServerBody(seg) ==
    (CHOOSE o \in Origin :
        o.seqId = seg.SeqId /\ o.uri = seg.URI /\ o.key = seg.Key).body

\* The playlists of the runs: a "plain" one, whose entries are not encrypted,
\* a "short" one, whose entries are not encrypted and have the shortest
\* bodies, and a "keyed" one, whose first entry carries the EXT-X-KEY tag.
sampleURI(kind, seqId) ==
    IF kind = "plain" THEN (IF seqId % 2 = 0 THEN "junk" ELSE "ts")
    ELSE IF kind = "short" THEN "ts"
    ELSE IF seqId = 0 THEN "enc" ELSE "encnext"

\* parseHLSSegments on a media playlist of n entries, SeqId 0 .. n-1 in
\* playlist order
Manifest(kind, n) ==
    parseHLSSegments([i \in 1 .. n |-> NewSegment(i - 1, sampleURI(kind, i - 1))])

NoFile == [exists |-> FALSE, data |-> << >>]
File(data) == [exists |-> TRUE, data |-> data]

(***************************************************************************)
(* getKey and decrypt.  keyStatus is what the key request does: "ok" (200),*)
(* "status" (another status), "neterr" (client.Get fails).  fileStatus is  *)
(* what reading the staged file does: "ok", "open" (os.Open fails), "read" *)
(* (io.ReadAll fails).                                                     *)
(***************************************************************************)
KeyStatuses == {"ok", "status", "neterr"}

FileStatuses == {"ok", "open", "read"}

\* []byte(s): the bytes of a string, one per character of the text
bytesOfString(str) == str

getKey(seg, keyStatus) ==
    IF keyStatus # "ok" THEN [err |-> "key", key |-> << >>, iv |-> << >>]
    ELSE LET iv == bytesOfString(seg.Key.IV)
         IN  [err |-> "", key |-> ServerKey,
              iv |-> IF Len(iv) = 0 THEN defaultIV(seg.SeqId) ELSE iv]

\* decrypt once the staged file is read: data is its content
decryptData(seg, data, keyStatus) ==
    IF ~seg.Key.present
    THEN [err |-> "", data |-> trimSync(data), panic |-> ""]
    ELSE LET k == getKey(seg, keyStatus)
         IN  IF k.err # "" THEN [err |-> k.err, data |-> << >>, panic |-> ""]
             ELSE IF decryptPanics(data, k.key, k.iv)
                  THEN [err |-> "", data |-> << >>,
                        panic |-> decryptPanic(data, k.key, k.iv)]
             ELSE LET d == decryptAES128(data, k.key, k.iv)
                  IN  IF d.err # "" THEN [err |-> d.err, data |-> << >>, panic |-> ""]
                      ELSE [err |-> "", data |-> trimSync(d.data), panic |-> ""]

\* decrypt(segment, client): os.Open(segment.path), io.ReadAll, then the above
decrypt(seg, fileStatus, keyStatus) ==
    LET file == IF seg.path = NoPath THEN NoFile ELSE staged[seg.path]
    IN  IF ~file.exists \/ fileStatus = "open"
        THEN [err |-> "open", data |-> << >>, panic |-> ""]
        ELSE IF fileStatus = "read"
        THEN [err |-> "read", data |-> << >>, panic |-> ""]
        ELSE decryptData(seg, file.data, keyStatus)

(***************************************************************************)
(* Results and errors.                                                     *)
(***************************************************************************)
NoErr == [seqId |-> NoSeq, err |-> ""]
Pending == [seqId |-> NoSeq, err |-> "pending"]
Err(seqId, kind) == [seqId |-> seqId, err |-> kind]

\* no goroutine has panicked
Alive == panicked = ""

\* the goroutine that called Download is unwinding after a panic in join: its
\* deferred calls run, then the process ends
Unwinding == pcMain \in {"unwind", "unwindentries", "unwindunlink", "unwindrmdir"}

\* the worker goroutines processSegments has started (none before it is called)
Workers == DOMAIN wpc

(***************************************************************************)
(* Initial states.                                                         *)
(***************************************************************************)
InitFetch ==
    /\ abort = FALSE /\ segClosed = FALSE /\ resClosed = FALSE
    /\ fpc = "idle" /\ fidx = 1
    /\ wpc = << >>
    /\ wseg = << >>
    /\ attempts = << >>
    /\ wres = << >>
    /\ opc = "idle"
    /\ received = [s \in SeqIds |-> 0]
    /\ increments = [s \in SeqIds |-> 0]
    /\ firstErr = NoErr
    /\ mainErr = NoErr
    /\ lateTaken = {}

InitJoin ==
    /\ jidx = 0 /\ jdata = << >> /\ output = NoFile /\ joined = << >>
    /\ joinInput = << >>

\* A downloader on which Download has not been called yet.
InitIdle ==
    /\ lastSet = [n |-> 0, err |-> "none"]
    /\ pcMain = "idle"
    /\ psRet = Pending
    /\ ret = [path |-> "", err |-> Pending]
    /\ tmpDir = FALSE
    /\ names = {}
    /\ staged = [s \in SeqIds |-> NoFile]
    /\ panicked = ""
    /\ InitFetch
    /\ InitJoin

\* New has returned a downloader, SetWorkers and SetBar may have been called:
\* any worker count >= 1, with or without a progress sink (the downloader
\* without one is run with a single worker), on a plain playlist of
\* 0 .. MaxSegs entries or on a keyed playlist of one entry.
Init ==
    /\ workers \in 1 .. MaxWorkers
    /\ bar \in (IF workers = 1 THEN BOOLEAN ELSE {TRUE})
    /\ segments \in {Manifest("plain", n) : n \in 0 .. MaxSegs} \cup {Manifest("keyed", 1)}
    /\ InitIdle

\* The state New returns: workers: defaultWorkers, bar: nil.
InitConfig ==
    /\ workers = defaultWorkers
    /\ bar = FALSE
    /\ segments = Manifest("plain", 0)
    /\ InitIdle

\* The descriptor lists join may be handed: what parseHLSSegments makes of a
\* playlist whose entries have pairwise distinct SeqId, in any order, each
\* staged by prepareSegments.
Distinct(segs) ==
    \A i, j \in 1 .. Len(segs) : i # j => segs[i].SeqId # segs[j].SeqId

JoinInputs ==
    LET lists == UNION {[1 .. n -> JoinSeqIds \X URIs] : n \in 0 .. (MaxJoinSeq + 1)}
        mk(l) == [i \in 1 .. Len(l) |->
                    [NewSegment(l[i][1], l[i][2]) EXCEPT !.path = segName(l[i][1])]]
    IN  {parseHLSSegments(mk(l)) :
            l \in {x \in lists : \A i, j \in 1 .. Len(x) : i # j => x[i][1] # x[j][1]}}

InList(segs, seqId) == \E i \in 1 .. Len(segs) : segs[i].SeqId = seqId

\* The state in which Download calls join: processSegments has returned nil,
\* every worker, the feeder and the observer are done.
JoinCalled ==
    /\ workers = 1
    /\ bar = TRUE
    /\ lastSet = [n |-> 0, err |-> "none"]
    /\ pcMain = "join"
    /\ psRet = NoErr
    /\ ret = [path |-> "", err |-> Pending]
    /\ tmpDir = TRUE
    /\ names = {}
    /\ panicked = ""
    /\ abort = FALSE /\ segClosed = TRUE /\ resClosed = FALSE
    /\ fpc = "done" /\ fidx = Len(segments) + 1
    /\ wpc = [w \in 1 .. workers |-> "done"]
    /\ wseg = [w \in 1 .. workers |-> NoSeq]
    /\ attempts = [w \in 1 .. workers |-> 0]
    /\ wres = [w \in 1 .. workers |-> ""]
    /\ opc = "done"
    /\ received = [s \in SeqIds |-> IF InList(segments, s) THEN 1 ELSE 0]
    /\ increments = [s \in SeqIds |-> IF InList(segments, s) THEN 1 ELSE 0]
    /\ firstErr = NoErr
    /\ mainErr = NoErr
    /\ lateTaken = {}
    /\ InitJoin

\* join is called on a list whose every segment is staged with the body its
\* URI serves.
InitAtJoin ==
    /\ segments \in JoinInputs
    /\ staged = [s \in SeqIds |->
                   IF InList(segments, s)
                   THEN File(ServerBody(segments[CHOOSE i \in 1 .. Len(segments) :
                                                    segments[i].SeqId = s]))
                   ELSE NoFile]
    /\ JoinCalled

\* The buffers an origin may have encrypted: none, or 1 .. MaxBlocks blocks
\* that start with a sync byte and end with any byte.
LastBytes == 0 .. ((blockSize * MaxBlocks) + 1)

PlainBuffer(blocks, last) ==
    [i \in 1 .. (blockSize * blocks) |->
        IF i = blockSize * blocks THEN last ELSE IF i = 1 THEN syncByte ELSE i]

Plains ==
    {<< >>} \cup {PlainBuffer(b, n) : b \in 1 .. MaxBlocks, n \in LastBytes}

KeyedSegments ==
    {[NewSegment(s, u) EXCEPT !.path = segName(s)] :
        s \in JoinSeqIds, u \in {"enc", "enciv"}}

\* join is called on one encrypted segment whose staged body is any of the
\* bodies the origin may have served for it.
InitAtDecrypt ==
    /\ \E seg \in KeyedSegments, plain \in Plains :
          /\ segments = << seg >>
          /\ staged = [s \in SeqIds |->
                         IF s = seg.SeqId
                         THEN File(CBCEncrypt(ServerKey, OriginIV(seg), plain))
                         ELSE NoFile]
    /\ JoinCalled

(***************************************************************************)
(* New, SetWorkers and SetBar.                                             *)
(***************************************************************************)
validWorkersOffByOne(n) == ~(n < 0)

validWorkers(n) == ~(n < 1)

SetWorkers(n) ==
    /\ Alive
    /\ IF validWorkers(n)
       THEN workers' = n /\ lastSet' = [n |-> n, err |-> "nil"]
       ELSE workers' = workers /\ lastSet' = [n |-> n, err |-> "error"]
    /\ UNCHANGED configVars

\* The arguments of SetBar: a nil pointer, a pointer to a nil Incrementer, a
\* pointer to an Incrementer.
BarArgs == {"nilptr", "nil", "set"}

\* h.bar = *bar: the dereference of a nil pointer panics
SetBar(b) ==
    /\ Alive
    /\ IF b = "nilptr"
       THEN bar' = bar /\ panicked' = "nil pointer dereference"
       ELSE bar' = (b = "set") /\ panicked' = panicked
    /\ UNCHANGED << workers, lastSet, segments, pcMain, psRet, ret, tmpDir, names, staged >>
    /\ UNCHANGED fetchVars
    /\ UNCHANGED joinVars

(***************************************************************************)
(* Download, up to the call of processSegments.                            *)
(***************************************************************************)
DownloadBegin ==
    /\ Alive /\ pcMain = "idle"
    /\ \E ok \in BOOLEAN :
          IF ok
          THEN /\ tmpDir' = TRUE
               /\ pcMain' = "process"
               /\ ret' = ret
          ELSE /\ tmpDir' = tmpDir
               /\ pcMain' = "returned"
               /\ ret' = [path |-> "", err |-> Err(NoSeq, "setup")]
    /\ UNCHANGED << workers, lastSet, bar, segments, psRet, staged, names,
                    panicked >>
    /\ UNCHANGED fetchVars
    /\ UNCHANGED joinVars

(***************************************************************************)
(* processSegments: the goroutines start.                                  *)
(***************************************************************************)
ProcessSegmentsStart ==
    /\ Alive /\ pcMain = "process"
    /\ wpc' = [w \in 1 .. workers |-> "recv"]
    /\ wseg' = [w \in 1 .. workers |-> NoSeq]
    /\ attempts' = [w \in 1 .. workers |-> 0]
    /\ wres' = [w \in 1 .. workers |-> ""]
    /\ fpc' = "check"
    /\ opc' = "wait"
    /\ pcMain' = "loop"
    /\ UNCHANGED << workers, lastSet, bar, segments, psRet, ret, tmpDir, names, staged,
                    panicked, abort, segClosed, resClosed, fidx,
                    received, firstErr, lateTaken, increments, mainErr >>
    /\ UNCHANGED joinVars

(***************************************************************************)
(* prepareSegments (the feeder).                                           *)
(***************************************************************************)
\* isAbort: the non-blocking receive on wc.abort
isAbort == abort

feederNeverStops == FALSE

feederStops == isAbort

FeederCheck ==
    /\ Alive /\ fpc = "check"
    /\ IF fidx > Len(segments) \/ feederStops
       THEN /\ segClosed' = TRUE
            /\ fpc' = "done"
            /\ segments' = segments
       ELSE /\ segments' = [segments EXCEPT ![fidx].path = segName(segments[fidx].SeqId)]
            /\ fpc' = "push"
            /\ segClosed' = segClosed
    /\ UNCHANGED << workers, lastSet, bar, pcMain, psRet, ret, tmpDir, names, staged,
                    panicked, abort, resClosed, fidx, wpc, wseg, attempts, wres,
                    opc, received, firstErr, lateTaken, increments, mainErr >>
    /\ UNCHANGED joinVars

(***************************************************************************)
(* downloadSegments (a worker).                                            *)
(***************************************************************************)
initialAttempts(w) == 0

nextIndexStuck(i) == i

\* the feeder's range over the slice moves to the next descriptor
nextIndex(i) == i + 1

\* the rendezvous on wc.segments: the feeder's send, a worker's receive
WorkerTake(w) ==
    /\ Alive /\ wpc[w] = "recv" /\ fpc = "push"
    /\ wseg' = [wseg EXCEPT ![w] = segments[fidx].SeqId]
    /\ attempts' = [attempts EXCEPT ![w] = initialAttempts(w)]
    /\ wpc' = [wpc EXCEPT ![w] = "check"]
    /\ fidx' = nextIndex(fidx)
    /\ fpc' = "check"
    /\ lateTaken' = IF abort THEN lateTaken \cup {segments[fidx].SeqId} ELSE lateTaken
    /\ UNCHANGED << workers, lastSet, bar, segments, pcMain, psRet, ret, tmpDir, names,
                    staged, panicked, abort, segClosed, resClosed, wres, opc,
                    received, firstErr, increments, mainErr >>
    /\ UNCHANGED joinVars

\* range wc.segments ends: the queue is closed; deferred wc.wg.Done()
WorkerQueueClosed(w) ==
    /\ Alive /\ wpc[w] = "recv" /\ segClosed
    /\ wpc' = [wpc EXCEPT ![w] = "done"]
    /\ UNCHANGED << workers, lastSet, bar, segments, pcMain, psRet, ret, tmpDir, names,
                    staged, panicked, abort, segClosed, resClosed, fpc, fidx,
                    wseg, attempts, wres, opc, received, firstErr, lateTaken,
                    increments, mainErr >>
    /\ UNCHANGED joinVars

\* the test at the head of the attempt loop; on abort close(wc.downloadResult)
WorkerCheckAbort(w) ==
    /\ Alive /\ wpc[w] = "check"
    /\ IF isAbort
       THEN /\ wpc' = [wpc EXCEPT ![w] = "done"]
            /\ wseg' = [wseg EXCEPT ![w] = NoSeq]
            /\ wres' = [wres EXCEPT ![w] = ""]
            /\ attempts' = [attempts EXCEPT ![w] = 0]
            /\ resClosed' = TRUE
            /\ panicked' = IF resClosed THEN "close of closed channel"
                           ELSE IF \E v \in Workers : wpc[v] = "send"
                                THEN "send on closed channel"
                           ELSE panicked
       ELSE /\ wpc' = [wpc EXCEPT ![w] = "attempt"]
            /\ UNCHANGED << wseg, wres, attempts, resClosed, panicked >>
    /\ UNCHANGED << workers, lastSet, bar, segments, pcMain, psRet, ret, tmpDir, names,
                    staged, abort, segClosed, fpc, fidx,
                    opc, received, firstErr, lateTaken, increments, mainErr >>
    /\ UNCHANGED joinVars

\* What client.Do and the test of the status give one call of
\* downloadSegment: "ok" (200), "status" (another status, the error is
\* errors.New(res.Status)), "statusreset" (another status whose text holds
\* the words connection reset by peer, as in "503 connection reset by peer"),
\* "reset" (client.Do fails with connection reset by peer), "other" (another
\* request error).
Responses == {"ok", "status", "statusreset", "reset", "other"}

\* the errors processSegments can return
DownloadErrs == Responses \ {"ok"}

\* What io.Copy returns: "" (nil), or an error of the connection.
CopyErrors == {"", "reset", "other"}

SegOf(seqId) == CHOOSE i \in 1 .. Len(segments) : segments[i].SeqId = seqId

\* the error downloadSegment returns before it copies ("" = none, it goes on
\* to io.Copy); os.Create fails when the staging directory is gone
downloadErr(o) ==
    IF o \in DownloadErrs THEN o
    ELSE IF ~tmpDir THEN "other"
    ELSE ""

\* os.Create(segment.path): the file exists and is empty
created(old) == File(<< >>)

\* io.Copy can return nil: the whole body is in the file, or the file was
\* unlinked under the copy, which then wrote to a file no path leads to
copyComplete(w) ==
    \/ ~staged[wseg[w]].exists
    \/ staged[wseg[w]].data = ServerBody(segments[SegOf(wseg[w])])

\* strings.Contains(err.Error(), "connection reset by peer"): the text of
\* the error is all that is looked at
connectionReset(err) == err \in {"reset", "statusreset"}

shouldRetry(err, n) == connectionReset(err) /\ n < maxAttempts

\* What the attempt loop does with the error downloadSegment returned.  The
\* retry counter is not read again once the result is on its way, and is
\* kept at 0 outside the attempt loop.
AttemptReturns(w, err) ==
    /\ wres' = [wres EXCEPT ![w] = err]
    /\ IF err # "" /\ shouldRetry(err, attempts[w])
       THEN /\ attempts' = [attempts EXCEPT ![w] = @ + 1]
            /\ wpc' = [wpc EXCEPT ![w] = "sleep"]
            /\ panicked' = panicked
       ELSE /\ attempts' = [attempts EXCEPT ![w] = 0]
            /\ wpc' = [wpc EXCEPT ![w] = "send"]
            /\ panicked' = IF resClosed THEN "send on closed channel" ELSE panicked

\* downloadSegment up to io.Copy: client.Do returns, the status is tested,
\* os.Create makes the staging file
WorkerRequest(w) ==
    /\ Alive /\ wpc[w] = "attempt"
    /\ \E o \in Responses :
          IF downloadErr(o) = ""
          THEN /\ staged' = [staged EXCEPT ![wseg[w]] = created(@)]
               /\ wpc' = [wpc EXCEPT ![w] = "copy"]
               /\ UNCHANGED << wres, attempts, panicked >>
          ELSE /\ staged' = staged
               /\ AttemptReturns(w, downloadErr(o))
    /\ UNCHANGED << workers, lastSet, bar, segments, pcMain, psRet, ret, tmpDir, names,
                    abort, segClosed, resClosed, fpc, fidx, wseg, opc, received,
                    firstErr, lateTaken, increments, mainErr >>
    /\ UNCHANGED joinVars

\* io.Copy writes what it has read of the body: the file grows to a longer
\* prefix of the body (nothing to see once the file is unlinked)
WorkerCopy(w) ==
    /\ Alive /\ wpc[w] = "copy"
    /\ staged[wseg[w]].exists
    /\ LET body == ServerBody(segments[SegOf(wseg[w])]) IN
          \E k \in (Len(staged[wseg[w]].data) + 1) .. Len(body) :
              staged' = [staged EXCEPT ![wseg[w]] = File(SubSeq(body, 1, k))]
    /\ UNCHANGED << workers, lastSet, bar, segments, pcMain, psRet, ret, tmpDir, names,
                    panicked, abort, segClosed, resClosed, fpc, fidx, wpc, wseg,
                    attempts, wres, opc, received, firstErr, lateTaken,
                    increments, mainErr >>
    /\ UNCHANGED joinVars

\* io.Copy returns, and downloadSegment with it: nil after the whole body, an
\* error after any part of it
WorkerCopyEnd(w) ==
    /\ Alive /\ wpc[w] = "copy"
    /\ \E err \in CopyErrors :
          /\ err = "" => copyComplete(w)
          /\ AttemptReturns(w, err)
    /\ UNCHANGED << workers, lastSet, bar, segments, pcMain, psRet, ret, tmpDir, names,
                    staged, abort, segClosed, resClosed, fpc, fidx, wseg, opc,
                    received, firstErr, lateTaken, increments, mainErr >>
    /\ UNCHANGED joinVars

afterSleepNoTest(w) == "attempt"

\* continue: the loop goes back to its head, the test of the abort signal
afterSleep(w) == "check"

\* time.Sleep(time.Second) ends; continue.  err is a variable of the loop
\* body: the next turn of the loop has a new one.
WorkerWake(w) ==
    /\ Alive /\ wpc[w] = "sleep"
    /\ wpc' = [wpc EXCEPT ![w] = afterSleep(w)]
    /\ wres' = [wres EXCEPT ![w] = ""]
    /\ UNCHANGED << workers, lastSet, bar, segments, pcMain, psRet, ret, tmpDir, names,
                    staged, panicked, abort, segClosed, resClosed, fpc, fidx,
                    wseg, attempts, opc, received, firstErr, lateTaken,
                    increments, mainErr >>
    /\ UNCHANGED joinVars

(***************************************************************************)
(* The observer: wc.wg.Wait(), then the send on wc.success.                *)
(***************************************************************************)
\* wc.wg.Wait() returns: every worker has run its deferred wc.wg.Done()
workersDone == \A w \in Workers : wpc[w] = "done"

ObserverWait ==
    /\ Alive /\ opc = "wait"
    /\ workersDone
    /\ opc' = "signal"
    /\ UNCHANGED << workers, lastSet, bar, segments, pcMain, psRet, ret, tmpDir, names,
                    staged, panicked, abort, segClosed, resClosed, fpc, fidx,
                    wpc, wseg, attempts, wres, received, firstErr, lateTaken,
                    increments, mainErr >>
    /\ UNCHANGED joinVars

(***************************************************************************)
(* processSegments: the coordinator's select loop.                         *)
(***************************************************************************)
afterResultIgnoringErr(r) == "loop"

\* where the coordinator goes after a result: result.err != nil leaves the loop
afterResult(r) == IF r.err # "" THEN "abort" ELSE "loop"

shouldIncrementAlways(r) == bar

shouldIncrement(r) == bar /\ r.err = ""

afterSendAgain(w) == "send"

\* where a worker goes once its result is handed over: break, the next segment
afterSend(w) == "recv"

\* the rendezvous on wc.downloadResult
CoordRecvResult(w) ==
    /\ Alive /\ pcMain = "loop" /\ wpc[w] = "send" /\ ~resClosed
    /\ LET r == Err(wseg[w], wres[w]) IN
          /\ received' = [received EXCEPT ![r.seqId] = @ + 1]
          /\ pcMain' = afterResult(r)
          /\ mainErr' = IF r.err # "" THEN r ELSE mainErr
          /\ firstErr' = IF r.err # "" /\ firstErr = NoErr THEN r ELSE firstErr
          /\ increments' = IF shouldIncrement(r)
                           THEN [increments EXCEPT ![r.seqId] = @ + 1]
                           ELSE increments
    /\ wpc' = [wpc EXCEPT ![w] = afterSend(w)]
    /\ wseg' = [wseg EXCEPT ![w] = IF afterSend(w) = "recv" THEN NoSeq ELSE @]
    /\ wres' = [wres EXCEPT ![w] = IF afterSend(w) = "recv" THEN "" ELSE @]
    /\ UNCHANGED << workers, lastSet, bar, segments, psRet, ret, tmpDir, names, staged,
                    panicked, abort, segClosed, resClosed, fpc, fidx,
                    attempts, opc, lateTaken >>
    /\ UNCHANGED joinVars

abortErrorNil == NoErr

\* the error processSegments returns after it closed wc.abort
abortError == mainErr

afterAbortLoop == "loop"

\* the coordinator has closed wc.abort and stands before return result.err
afterAbort == "closed"

\* close(wc.abort).  The workers, the feeder and the observer run on between
\* this step and the return.
CoordAbort ==
    /\ Alive /\ pcMain = "abort"
    /\ abort' = TRUE
    /\ pcMain' = afterAbort
    /\ UNCHANGED << workers, lastSet, bar, segments, psRet, ret, tmpDir, names, staged,
                    panicked, segClosed, resClosed, fpc, fidx, wpc, wseg,
                    attempts, wres, opc, received, firstErr, lateTaken,
                    increments, mainErr >>
    /\ UNCHANGED joinVars

\* return result.err: processSegments returns to Download
CoordReturn ==
    /\ Alive /\ pcMain = "closed"
    /\ psRet' = abortError
    /\ pcMain' = "failed"
    /\ UNCHANGED << workers, lastSet, bar, segments, ret, tmpDir, names, staged,
                    panicked, abort, segClosed, resClosed, fpc, fidx, wpc, wseg,
                    attempts, wres, opc, received, firstErr, lateTaken,
                    increments, mainErr >>
    /\ UNCHANGED joinVars

\* if err != nil { return "", err } after processSegments: Download returns,
\* and its deferred os.RemoveAll is what runs next
DownloadFails ==
    /\ Alive /\ pcMain = "failed"
    /\ ret' = [path |-> "", err |-> psRet]
    /\ pcMain' = "cleanup"
    /\ UNCHANGED << workers, lastSet, bar, segments, psRet, tmpDir, names, staged, panicked >>
    /\ UNCHANGED fetchVars
    /\ UNCHANGED joinVars

\* case <-wc.success: return nil; Download goes on to join
CoordSuccess ==
    /\ Alive /\ pcMain = "loop" /\ opc = "signal"
    /\ opc' = "done"
    /\ psRet' = NoErr
    /\ pcMain' = "join"
    /\ UNCHANGED << workers, lastSet, bar, segments, ret, tmpDir, names, staged,
                    panicked, abort, segClosed, resClosed, fpc, fidx, wpc, wseg,
                    attempts, wres, received, firstErr, lateTaken, increments,
                    mainErr >>
    /\ UNCHANGED joinVars

(***************************************************************************)
(* join.                                                                   *)
(***************************************************************************)
noSort(segs) == segs

\* sort.Slice(segments, less by SeqId): the insertion sort it runs on a short
\* slice, which moves an element only past those with a greater SeqId, so
\* descriptors with equal SeqId keep their order.  seg stood before every
\* element of sorted.
RECURSIVE insertBySeqId(_, _)
insertBySeqId(seg, sorted) ==
    IF Len(sorted) = 0 THEN << seg >>
    ELSE IF seg.SeqId <= Head(sorted).SeqId THEN << seg >> \o sorted
    ELSE << Head(sorted) >> \o insertBySeqId(seg, Tail(sorted))

RECURSIVE sortBySeqId(_)
sortBySeqId(segs) ==
    IF Len(segs) = 0 THEN << >>
    ELSE insertBySeqId(Head(segs), sortBySeqId(Tail(segs)))

errPathOutput == "output"

\* the path join returns beside an error
errPath == ""

\* os.Create(h.output), then the sort
JoinBegin ==
    /\ Alive /\ pcMain = "join"
    /\ \E ok \in BOOLEAN :
          IF ok
          THEN /\ output' = File(<< >>)
               /\ segments' = sortBySeqId(segments)
               /\ joinInput' = [i \in 1 .. Len(segments) |-> segments[i].SeqId]
               /\ jidx' = 1
               /\ pcMain' = "decrypt"
               /\ ret' = ret
          ELSE /\ ret' = [path |-> errPath, err |-> Err(NoSeq, "create")]
               /\ pcMain' = "cleanup"
               /\ UNCHANGED << output, segments, jidx, joinInput >>
    /\ UNCHANGED << workers, lastSet, bar, psRet, tmpDir, names, staged, panicked,
                    jdata, joined >>
    /\ UNCHANGED fetchVars

\* d, err := decrypt(segment, h.client); a panic in decrypt unwinds join and
\* Download, whose deferred calls run before the process ends
JoinDecrypt ==
    /\ Alive /\ pcMain = "decrypt" /\ jidx <= Len(segments)
    /\ \E fileStatus \in FileStatuses, keyStatus \in KeyStatuses :
          LET d == decrypt(segments[jidx], fileStatus, keyStatus) IN
          IF d.panic # ""
          THEN /\ panicked' = d.panic
               /\ pcMain' = "unwind"
               /\ UNCHANGED << jdata, ret >>
          ELSE IF d.err # ""
          THEN /\ ret' = [path |-> errPath, err |-> Err(segments[jidx].SeqId, d.err)]
               /\ pcMain' = "cleanup"
               /\ UNCHANGED << jdata, panicked >>
          ELSE /\ jdata' = d.data
               /\ pcMain' = "write"
               /\ UNCHANGED << ret, panicked >>
    /\ UNCHANGED << workers, lastSet, bar, segments, psRet, tmpDir, names, staged,
                    jidx, output, joined, joinInput >>
    /\ UNCHANGED fetchVars

\* file.Write(d); a write that fails has put any number of bytes of d below
\* len(d)
JoinWrite ==
    /\ Alive /\ pcMain = "write"
    /\ \E ok \in BOOLEAN :
          IF ok
          THEN /\ output' = File(output.data \o jdata)
               /\ joined' = Append(joined, segments[jidx].SeqId)
               /\ pcMain' = "remove"
               /\ ret' = ret
          ELSE /\ \E k \in {0} \cup (0 .. (Len(jdata) - 1)) :
                     output' = File(output.data \o SubSeq(jdata, 1, k))
               /\ ret' = [path |-> errPath, err |-> Err(segments[jidx].SeqId, "write")]
               /\ pcMain' = "cleanup"
               /\ joined' = joined
    /\ UNCHANGED << workers, lastSet, bar, segments, psRet, tmpDir, names, staged,
                    panicked, jidx, jdata, joinInput >>
    /\ UNCHANGED fetchVars

removedKept(file) == file

\* what os.RemoveAll leaves at the path
removed(file) == NoFile

\* os.RemoveAll(segment.path)
JoinRemove ==
    /\ Alive /\ pcMain = "remove"
    /\ \E ok \in BOOLEAN :
          IF ok
          THEN /\ staged' = [staged EXCEPT ![segments[jidx].path] = removed(@)]
               /\ jidx' = jidx + 1
               /\ pcMain' = "decrypt"
               /\ ret' = ret
          ELSE /\ ret' = [path |-> errPath, err |-> Err(segments[jidx].SeqId, "remove")]
               /\ pcMain' = "cleanup"
               /\ UNCHANGED << staged, jidx >>
    /\ UNCHANGED << workers, lastSet, bar, segments, psRet, tmpDir, names, panicked,
                    jdata, output, joined, joinInput >>
    /\ UNCHANGED fetchVars

\* the loop is over: return h.output, nil
JoinEnd ==
    /\ Alive /\ pcMain = "decrypt" /\ jidx > Len(segments)
    /\ ret' = [path |-> "output", err |-> NoErr]
    /\ pcMain' = "cleanup"
    /\ UNCHANGED << workers, lastSet, bar, segments, psRet, tmpDir, names, staged, panicked >>
    /\ UNCHANGED fetchVars
    /\ UNCHANGED joinVars

(***************************************************************************)
(* defer os.RemoveAll(h.tmpDir).  It first tries Remove on the path, which *)
(* removes an empty directory at once; otherwise it reads the names in the *)
(* directory, unlinks them one by one, going on after an unlink that       *)
(* fails, and then removes the directory if it is empty; the error is      *)
(* dropped.  It runs when Download returns and when a panic unwinds it.    *)
(* The other goroutines run between any two of these calls.                *)
(***************************************************************************)
dirEmpty == \A s \in SeqIds : ~staged[s].exists

\* Remove(path): done if the directory is empty
RemoveAllRemove ==
    /\ (Alive /\ pcMain = "cleanup") \/ pcMain = "unwind"
    /\ IF dirEmpty
       THEN /\ tmpDir' = FALSE
            /\ pcMain' = IF pcMain = "cleanup" THEN "returned" ELSE "crashed"
       ELSE /\ tmpDir' = tmpDir
            /\ pcMain' = IF pcMain = "cleanup" THEN "entries" ELSE "unwindentries"
    /\ UNCHANGED << workers, lastSet, bar, segments, psRet, ret, staged, names,
                    panicked >>
    /\ UNCHANGED fetchVars
    /\ UNCHANGED joinVars

\* file.Readdirnames(reqSize): the names in the directory at this moment
RemoveAllEntries ==
    /\ (Alive /\ pcMain = "entries") \/ pcMain = "unwindentries"
    /\ names' = {s \in SeqIds : staged[s].exists}
    /\ pcMain' = IF names' = {}
                 THEN (IF pcMain = "entries" THEN "rmdir" ELSE "unwindrmdir")
                 ELSE (IF pcMain = "entries" THEN "unlink" ELSE "unwindunlink")
    /\ UNCHANGED << workers, lastSet, bar, segments, psRet, ret, tmpDir, staged,
                    panicked >>
    /\ UNCHANGED fetchVars
    /\ UNCHANGED joinVars

\* removeAllFrom(file, name) for one of the names read, in whatever order
\* the directory gave them: the unlink removes the file, or fails and leaves
\* it; the loop goes on to the next name either way
RemoveAllUnlink ==
    /\ (Alive /\ pcMain = "unlink") \/ pcMain = "unwindunlink"
    /\ \E s \in names, ok \in BOOLEAN :
          /\ staged' = IF ok THEN [staged EXCEPT ![s] = NoFile] ELSE staged
          /\ names' = names \ {s}
    /\ pcMain' = IF names' # {} THEN pcMain
                 ELSE IF pcMain = "unlink" THEN "rmdir" ELSE "unwindrmdir"
    /\ UNCHANGED << workers, lastSet, bar, segments, psRet, ret, tmpDir,
                    panicked >>
    /\ UNCHANGED fetchVars
    /\ UNCHANGED joinVars

\* unix.Unlinkat(parentFd, base, unix.AT_REMOVEDIR)
RemoveAllDir ==
    /\ (Alive /\ pcMain = "rmdir") \/ pcMain = "unwindrmdir"
    /\ tmpDir' = IF dirEmpty THEN FALSE ELSE tmpDir
    /\ pcMain' = IF pcMain = "rmdir" THEN "returned" ELSE "crashed"
    /\ UNCHANGED << workers, lastSet, bar, segments, psRet, ret, staged, names,
                    panicked >>
    /\ UNCHANGED fetchVars
    /\ UNCHANGED joinVars

(***************************************************************************)
(* Specifications.                                                         *)
(***************************************************************************)
Next ==
    \/ DownloadBegin
    \/ ProcessSegmentsStart
    \/ FeederCheck
    \/ \E w \in Workers : WorkerTake(w)
    \/ \E w \in Workers : WorkerQueueClosed(w)
    \/ \E w \in Workers : WorkerCheckAbort(w)
    \/ \E w \in Workers : WorkerRequest(w)
    \/ \E w \in Workers : WorkerCopy(w)
    \/ \E w \in Workers : WorkerCopyEnd(w)
    \/ \E w \in Workers : WorkerWake(w)
    \/ ObserverWait
    \/ \E w \in Workers : CoordRecvResult(w)
    \/ CoordAbort
    \/ CoordReturn
    \/ DownloadFails
    \/ CoordSuccess
    \/ JoinBegin
    \/ JoinDecrypt
    \/ JoinWrite
    \/ JoinRemove
    \/ JoinEnd
    \/ RemoveAllRemove
    \/ RemoveAllEntries
    \/ RemoveAllUnlink
    \/ RemoveAllDir

Spec == Init /\ [][Next]_vars

\* Scheduling: a goroutine that can take a step eventually takes one, a
\* rendezvous both sides are ready for eventually happens, every request and
\* every copy of a body returns and every sleep ends.
CallerStep ==
    \/ DownloadBegin
    \/ ProcessSegmentsStart
    \/ \E w \in Workers : CoordRecvResult(w)
    \/ CoordAbort
    \/ CoordReturn
    \/ DownloadFails
    \/ CoordSuccess
    \/ JoinBegin
    \/ JoinDecrypt
    \/ JoinWrite
    \/ JoinRemove
    \/ JoinEnd
    \/ RemoveAllRemove
    \/ RemoveAllEntries
    \/ RemoveAllUnlink
    \/ RemoveAllDir

WorkerStep(w) ==
    \/ WorkerQueueClosed(w)
    \/ WorkerCheckAbort(w)
    \/ WorkerRequest(w)
    \/ WorkerCopy(w)
    \/ WorkerCopyEnd(w)
    \/ WorkerWake(w)

Fairness ==
    /\ WF_vars(CallerStep)
    /\ WF_vars(FeederCheck)
    /\ WF_vars(\E w \in Workers : WorkerTake(w))
    /\ WF_vars(\E w \in Workers : WorkerStep(w))
    /\ WF_vars(ObserverWait)

SpecFair == Init /\ [][Next]_vars /\ Fairness

\* A playlist one entry longer than those of Init, with a progress sink.
InitLong ==
    /\ workers \in 1 .. MaxWorkers
    /\ bar = TRUE
    /\ segments = Manifest("short", MaxSegs + 1)
    /\ InitIdle

\* Download up to the return of processSegments: the caller as far as that
\* return, and the goroutines processSegments started, which run on after it
FetchCallerStep ==
    \/ DownloadBegin
    \/ ProcessSegmentsStart
    \/ \E w \in Workers : CoordRecvResult(w)
    \/ CoordAbort
    \/ CoordReturn
    \/ CoordSuccess

NextFetch ==
    \/ FetchCallerStep
    \/ FeederCheck
    \/ \E w \in Workers : WorkerTake(w)
    \/ \E w \in Workers : WorkerStep(w)
    \/ ObserverWait

FairnessFetch ==
    /\ WF_vars(FetchCallerStep)
    /\ WF_vars(FeederCheck)
    /\ WF_vars(\E w \in Workers : WorkerTake(w))
    /\ WF_vars(\E w \in Workers : WorkerStep(w))
    /\ WF_vars(ObserverWait)

SpecLong == InitLong /\ [][NextFetch]_vars /\ FairnessFetch

\* The same playlist, fetched by a single worker, under fair scheduling.
InitFeeder ==
    /\ workers = 1
    /\ bar = TRUE
    /\ segments = Manifest("plain", MaxSegs + 1)
    /\ InitIdle

SpecFeeder == InitFeeder /\ [][Next]_vars /\ Fairness

\* join and what follows it in Download, on any descriptor list
NextJoin ==
    \/ JoinBegin
    \/ JoinDecrypt
    \/ JoinWrite
    \/ JoinRemove
    \/ JoinEnd
    \/ RemoveAllRemove
    \/ RemoveAllEntries
    \/ RemoveAllUnlink
    \/ RemoveAllDir

SpecJoin == InitAtJoin /\ [][NextJoin]_vars

\* join on one encrypted segment, for the bodies an origin may serve
SpecDecrypt == InitAtDecrypt /\ [][NextJoin]_vars

\* the setters that may be called on a new downloader
NextConfig ==
    \/ \E n \in (0 - MaxSetArg) .. MaxSetArg : SetWorkers(n)
    \/ \E b \in BarArgs : SetBar(b)

SpecConfig == InitConfig /\ [][NextConfig]_vars

(***************************************************************************)
(* Properties.                                                             *)
(***************************************************************************)
ListSeqIds == {segments[i].SeqId : i \in 1 .. Len(segments)}

\* the payload of a staged segment: decrypt of the body its URI serves, with
\* the key request answered
Payloads ==
    {[seqId |-> o.seqId, uri |-> o.uri, key |-> o.key,
      data |-> decryptData([SeqId |-> o.seqId, Key |-> o.key], o.body, "ok").data] :
        o \in Origin}

PayloadOf(seqId) ==
    LET seg == segments[SegOf(seqId)]
    IN  (CHOOSE p \in Payloads :
            p.seqId = seg.SeqId /\ p.uri = seg.URI /\ p.key = seg.Key).data

MinOf(S) == CHOOSE m \in S : \A x \in S : m <= x

RECURSIVE ConcatAscending(_)
ConcatAscending(S) ==
    IF S = {} THEN << >>
    ELSE PayloadOf(MinOf(S)) \o ConcatAscending(S \ {MinOf(S)})

\* the payloads of the first k descriptors of the (sorted) slice
RECURSIVE ConcatFirst(_)
ConcatFirst(k) ==
    IF k = 0 THEN << >>
    ELSE ConcatFirst(k - 1) \o PayloadOf(segments[k].SeqId)

\* C1: when join returns the output path, the output file holds the payloads
\* decrypt returns (decrypted, trimmed to the first sync byte) of all the
\* segments, concatenated in strictly ascending SeqId order, whatever the order
\* of the list join was given.
C1_JoinOutputInSeqIdOrder ==
    ret.path = "output" =>
        /\ output.exists
        /\ output.data = ConcatAscending(ListSeqIds)
        /\ Len(joined) = Len(joinInput)
        /\ \A i, j \in 1 .. Len(joined) : i < j => joined[i] < joined[j]

C1_Witness ==
    /\ ret.path = "output"
    /\ pcMain = "returned"
    /\ Len(joinInput) = 3
    /\ joinInput[1] > joinInput[2]
    /\ joinInput[2] < joinInput[3]
    /\ segments[1].URI = "enc"
    /\ segments[2].URI = "encnext"
    /\ segments[3].URI = "encnext"

JoinErrs == {"open", "read", "key", "cipher", "write", "remove"}

JoinFailed ==
    /\ pcMain \in {"cleanup", "entries", "unlink", "rmdir", "returned"}
    /\ ret.err.err \in JoinErrs

\* C8 as stated: whichever of decrypt, the write or the removal fails for the
\* k-th segment, the output holds exactly the payloads of the k-1 earlier ones.
C8_Original ==
    JoinFailed => ret.path = "" /\ output.data = ConcatFirst(jidx - 1)

\* C8, amended: when join fails at the k-th segment in ascending SeqId order,
\* it returns that segment's error with an empty path and Download returns it,
\* and nothing more is written; the output then holds the k-1 earlier payloads
\* when decrypt failed, those followed by a part of the k-th payload when the
\* write failed, and the k payloads up to and including the k-th when the
\* removal of its staging file failed.
C8_JoinFailureState ==
    JoinFailed =>
        /\ ret.path = ""
        /\ ret.err.seqId = segments[jidx].SeqId
        /\ \A i \in 1 .. (jidx - 1) : segments[i].SeqId < segments[jidx].SeqId
        /\ ret.err.err \in {"open", "read", "key", "cipher"} =>
              output.data = ConcatFirst(jidx - 1) /\ Len(joined) = jidx - 1
        /\ ret.err.err = "write" =>
              /\ Len(joined) = jidx - 1
              /\ \E m \in 0 .. Len(PayloadOf(segments[jidx].SeqId)) :
                    output.data = ConcatFirst(jidx - 1)
                                    \o SubSeq(PayloadOf(segments[jidx].SeqId), 1, m)
        /\ ret.err.err = "remove" =>
              output.data = ConcatFirst(jidx) /\ Len(joined) = jidx

C8_JoinFailure ==
    /\ [] C8_JoinFailureState
    /\ [][JoinFailed => output' = output /\ joined' = joined /\ ret' = ret]_vars

C8_Witness ==
    /\ JoinFailed
    /\ pcMain = "returned"
    /\ ret.err.err = "key"
    /\ jidx = 2
    /\ output.data = PayloadOf(segments[1].SeqId)
    /\ Len(output.data) > 0

\* C9: the worker count is always at least 1: defaultWorkers until SetWorkers
\* is called, n after SetWorkers(n) returned nil, which it does exactly when
\* n >= 1, and unchanged by a SetWorkers call that returned an error.
C9_WorkersState ==
    /\ workers >= 1
    /\ lastSet.err = "none" => workers = 5
    /\ lastSet.err = "nil" => lastSet.n >= 1 /\ workers = lastSet.n
    /\ lastSet.err = "error" => lastSet.n < 1
    /\ lastSet.err \in {"none", "nil", "error"}

C9_WorkersAtLeastOne ==
    /\ [] C9_WorkersState
    /\ [][lastSet'.err = "error" => workers' = workers]_vars

C9_Witness ==
    /\ workers = 7
    /\ lastSet = [n |-> 0, err |-> "error"]

\* a worker holds the descriptor with this SeqId
Holds(w, seqId) ==
    wseg[w] = seqId /\ wpc[w] \in {"check", "attempt", "copy", "sleep", "send"}

\* a worker is inside a call of downloadSegment
InAttempt(w) == wpc[w] \in {"attempt", "copy"}

\* the download of this segment ended in a fatal error: a failing result was
\* produced for it (it is on its way, or the coordinator received it)
Fatal(seqId) ==
    \/ \E w \in Workers : wseg[w] = seqId /\ wpc[w] = "send" /\ wres[w] # ""
    \/ firstErr.seqId = seqId /\ firstErr.err # ""

\* the download of this segment succeeded: a success result was produced
Succeeded(seqId) ==
    \/ \E w \in Workers : wseg[w] = seqId /\ wpc[w] = "send" /\ wres[w] = ""
    \/ received[seqId] >= 1 /\ firstErr.seqId # seqId

\* C2: no partial success.  processSegments returns nil only when every
\* segment of the list was downloaded, its success result received and every
\* worker done, and then every staging file holds the whole body; when the
\* download of any segment ended in a fatal error processSegments does not
\* return nil and Download returns an error with an empty path.
C2_NoPartialSuccess ==
    /\ psRet = NoErr =>
          /\ \A s \in ListSeqIds : received[s] = 1 /\ Succeeded(s)
          /\ \A w \in Workers : wpc[w] = "done"
          /\ firstErr = NoErr
    /\ pcMain = "join" =>
          \A i \in 1 .. Len(segments) :
              staged[segments[i].SeqId] = File(ServerBody(segments[i]))
    /\ \A s \in SeqIds : Fatal(s) => psRet # NoErr
    /\ (pcMain = "returned" /\ \E s \in SeqIds : Fatal(s)) =>
          ret.path = "" /\ ret.err # NoErr /\ ret.err # Pending
    /\ (pcMain = "returned" /\ ret.path # "") => psRet = NoErr

C2_Witness ==
    /\ pcMain = "returned"
    /\ workers = 2
    /\ Fatal(1)
    /\ Succeeded(0)
    /\ ret.path = ""
    /\ ret.err = Err(1, "status")

\* C3: a failing result the coordinator receives is the first and the last
\* one: its next step closes wc.abort, the one after returns that very error
\* from processSegments and the one after from Download, with no other result
\* received before, between or after them, whatever the workers, the feeder
\* and the observer are doing.
C3_AbortState ==
    /\ pcMain \in {"abort", "closed"} =>
          mainErr = firstErr /\ mainErr.err # "" /\ psRet = Pending
    /\ pcMain = "abort" => ~abort
    /\ firstErr # NoErr => pcMain # "loop"
    /\ abort =>
          \/ pcMain = "closed"
          \/ psRet = firstErr /\ psRet.err \in DownloadErrs
    /\ psRet \notin {Pending, NoErr} => abort /\ psRet = firstErr
    /\ pcMain \in {"cleanup", "entries", "unlink", "rmdir", "returned"} /\ abort =>
          ret = [path |-> "", err |-> firstErr]
    /\ firstErr # NoErr => received[firstErr.seqId] = 1

C3_AbortAndReturnFirstError ==
    /\ [] C3_AbortState
    /\ [][pcMain = "abort" =>
            /\ received' = received
            /\ firstErr' = firstErr
            /\ psRet' = psRet
            /\ (pcMain' = "abort" /\ abort' = abort)
               \/ (pcMain' = "closed" /\ abort')]_vars
    /\ [][pcMain = "closed" =>
            /\ received' = received
            /\ firstErr' = firstErr
            /\ abort'
            /\ (pcMain' = "closed" /\ psRet' = psRet)
               \/ (pcMain' = "failed" /\ psRet' = mainErr)]_vars
    /\ [][pcMain = "failed" =>
            /\ psRet' = psRet
            /\ (pcMain' = "failed" /\ ret' = ret)
               \/ (pcMain' = "cleanup" /\ ret' = [path |-> "", err |-> psRet])]_vars
    /\ [][firstErr # NoErr => received' = received /\ firstErr' = firstErr]_vars

C3_Witness ==
    /\ psRet = Err(0, "other")
    /\ \E w \in Workers : wpc[w] = "attempt"
    /\ fpc = "check"
    /\ opc = "wait"
    /\ pcMain = "returned"

\* C4 as stated: no descriptor is handed from the feeder to a worker once
\* wc.abort is closed.
C4_Original == lateTaken = {}

\* C4, amended: once wc.abort is closed the feeder starts no push: the test
\* it makes before each push stops it.  The one push it had started before
\* may still complete, so at most one descriptor is handed over after the
\* abort, and the worker that takes it tests the signal and makes no download
\* attempt for it.
C4_LateHandoffState ==
    /\ Cardinality(lateTaken) <= 1
    /\ \A w \in Workers : wseg[w] \in lateTaken => wpc[w] = "check"
    /\ \A s \in lateTaken : ~Fatal(s) /\ ~Succeeded(s) /\ ~staged[s].exists

C4_NoPushStartedAfterAbort ==
    /\ [] C4_LateHandoffState
    /\ [][(abort /\ fpc = "check") => fpc' # "push"]_vars
    /\ [][(abort /\ lateTaken # {}) => fidx' = fidx]_vars

C4_Witness ==
    /\ Cardinality(lateTaken) = 1
    /\ fpc = "done"
    /\ segClosed
    /\ fidx = 3
    /\ Len(segments) = 2

\* C5 as stated: the retry budget of one segment.  The counter is 0 when a
\* worker takes a segment and never exceeds maxAttempts (3); an attempt that
\* fails with a connection-reset error with the counter below 3 adds one and
\* is retried after the sleep, one with the counter at 3 (the fourth attempt)
\* is reported as a failing result, and any other error, a non-200 status
\* included, is reported at once with no retry.
C5_RetryState ==
    \A w \in Workers :
        /\ attempts[w] \in 0 .. 3
        /\ wpc[w] = "sleep" => wres[w] = "reset" /\ attempts[w] >= 1

C5_RetryStep(w) ==
    /\ (wpc[w] = "recv" /\ wpc'[w] = "check") => attempts'[w] = 0
    /\ (InAttempt(w) /\ wpc'[w] = "sleep") =>
          wres'[w] = "reset" /\ attempts[w] < 3 /\ attempts'[w] = attempts[w] + 1
    /\ (InAttempt(w) /\ wpc'[w] = "send" /\ wres'[w] = "reset") =>
          attempts[w] = 3
    /\ (InAttempt(w) /\ wpc'[w] # wpc[w]) =>
          wpc'[w] \in {"copy", "sleep", "send"}
    /\ (InAttempt(w) /\ wpc'[w] \notin {"sleep", "send"}) =>
          attempts'[w] = attempts[w]
    /\ (wpc[w] = "sleep" /\ wpc'[w] # "sleep") =>
          wpc'[w] = "check" /\ attempts'[w] = attempts[w]

C5_RetryBound ==
    /\ [] C5_RetryState
    /\ [][\A w \in Workers : C5_RetryStep(w)]_vars

\* C6 as stated: when Download has returned, the staging directory and every
\* file in it are gone.
C6_StagingRemovedOnReturn ==
    pcMain = "returned" => ~tmpDir /\ \A s \in SeqIds : ~staged[s].exists

\* C7 as stated: once processSegments has returned, Increment was called
\* exactly once for each segment whose download succeeded, and never for a
\* segment whose download failed.
C7_Original ==
    (bar /\ psRet # Pending) =>
        \A s \in SeqIds :
            /\ Succeeded(s) => increments[s] = 1
            /\ Fatal(s) => increments[s] = 0

\* C7, amended: with a progress sink set, Increment is called exactly once
\* for each success result the coordinator receives and never for a failing
\* one, so at most once per segment and only for segments whose download
\* succeeded; a download that succeeded with its result not received before
\* the coordinator returned gets none.  When processSegments returns nil
\* every segment of the list has its one call, and no call is made outside the
\* coordinator's loop (none during join).
C7_IncrementState ==
    /\ \A s \in SeqIds :
          /\ increments[s] =
                IF bar /\ received[s] = 1 /\ firstErr.seqId # s THEN 1 ELSE 0
          /\ increments[s] = 1 => Succeeded(s) /\ ~Fatal(s)
          /\ s \notin ListSeqIds => increments[s] = 0
    /\ (bar /\ psRet = NoErr) => \A s \in ListSeqIds : increments[s] = 1

C7_IncrementPerReceivedSuccess ==
    /\ [] C7_IncrementState
    /\ [][pcMain # "loop" => increments' = increments]_vars

C7_Witness ==
    /\ bar
    /\ workers = 2
    /\ pcMain = "returned"
    /\ ret.path = "output"
    /\ Len(segments) = 2
    /\ \A s \in ListSeqIds : increments[s] = 1

\* C10: while the coordinator is in its loop, or holds a failing result with
\* wc.abort not closed yet, every descriptor taken from the queue is either
\* still held by exactly one worker with no result received for it, or was
\* released by its worker with exactly one result received; no descriptor
\* ever has two results received, and one not yet taken has none.
C10_OneResultPerSegment ==
    /\ \A s \in SeqIds : received[s] <= 1
    /\ pcMain \in {"loop", "abort"} =>
          \A i \in 1 .. Len(segments) :
              LET s == segments[i].SeqId
                  holders == {w \in Workers : Holds(w, s)}
              IN  IF i < fidx
                  THEN \/ received[s] = 1 /\ holders = {}
                       \/ received[s] = 0 /\ Cardinality(holders) = 1
                  ELSE received[s] = 0 /\ holders = {}

C10_Witness ==
    /\ pcMain = "loop"
    /\ received[0] = 1
    /\ \E w \in Workers : Holds(w, 1) /\ wpc[w] = "send" /\ wres[w] = "other"

\* the descriptor join has in hand, the staged bytes decrypt read for it, and
\* what CryptBlocks makes of them with the key and the IV getKey returned
InHand == segments[jidx]
StagedBody == staged[InHand.path].data
UsedIV == ivBlock(getKey(InHand, "ok").iv)
Decrypted == CBCDecrypt(ServerKey, UsedIV, StagedBody)

\* decrypt has returned the bytes of an encrypted segment to join
DecryptReturned ==
    /\ pcMain = "write"
    /\ InHand.Key.present

\* C19: the IV of the decryption of an encrypted segment.  When the key
\* carries an IV attribute the decryption uses the 16 bytes that attribute
\* stands for; when it carries none it uses 8 zero bytes followed by the
\* big-endian 8 bytes of the segment's SeqId.  In both cases what decrypt
\* returns is the decryption under that IV.
C19_ExpectedIV ==
    IF Len(InHand.Key.IV) = 0
    THEN [i \in 1 .. 16 |-> IF i = 16 THEN InHand.SeqId ELSE 0]
    ELSE HexBytes(InHand.Key.IV)

C19_IVSelection ==
    DecryptReturned =>
        /\ UsedIV = C19_ExpectedIV
        /\ jdata = trimSync(pkcs5UnPadding(
                        CBCDecrypt(ServerKey, C19_ExpectedIV, StagedBody)))

\* C20: for every buffer CryptBlocks hands to pkcs5UnPadding, with n the
\* value of its last byte, pkcs5UnPadding returns: the run does not end in a
\* panic of the decryption, and what it returns is the buffer without its
\* last n bytes, of length len - n, the prefix unchanged.
C20_UnpaddingRemovesLastN ==
    /\ panicked \notin {"index out of range", "slice bounds out of range"}
    /\ DecryptReturned =>
          LET n == Decrypted[Len(Decrypted)]
              out == pkcs5UnPadding(Decrypted)
          IN  /\ Len(out) = Len(Decrypted) - n
              /\ out = SubSeq(Decrypted, 1, Len(Decrypted) - n)
              /\ jdata = trimSync(out)

\* C15: a descriptor is handed to exactly one worker.  Each hand-off gives
\* the one descriptor the feeder has in hand to one worker and moves the feeder
\* to the next, no other worker's descriptor changes, and at no state do two
\* workers hold descriptors with the same SeqId or the same staging path.
C15_DisjointState ==
    /\ \A w, v \in Workers :
          (w # v /\ Holds(w, wseg[w]) /\ Holds(v, wseg[v])) =>
              /\ wseg[w] # wseg[v]
              /\ segments[SegOf(wseg[w])].path # segments[SegOf(wseg[v])].path
    /\ \A w \in Workers :
          Holds(w, wseg[w]) =>
              /\ SegOf(wseg[w]) < fidx
              /\ segments[SegOf(wseg[w])].path = segName(wseg[w])

C15_HandOff(w) ==
    (wpc[w] = "recv" /\ wpc'[w] = "check") =>
        /\ wseg'[w] = segments[fidx].SeqId
        /\ fidx' = fidx + 1
        /\ \A v \in Workers : v # w => wseg'[v] = wseg[v] /\ wpc'[v] = wpc[v]

C15_OneWorkerPerSegment ==
    /\ [] C15_DisjointState
    /\ [][\A w \in Workers : C15_HandOff(w)]_vars

C15_Witness ==
    /\ Workers = {1, 2}
    /\ wpc[1] = "copy" /\ wseg[1] = 1
    /\ staged[1].exists /\ Len(staged[1].data) = 1
    /\ wpc[2] = "attempt" /\ wseg[2] = 0
    /\ staged[0].exists
    /\ attempts[2] = 1

\* C16 as stated: a worker whose attempt failed with a connection reset
\* tests the abort signal before it starts the retry sleep, so no retry sleep
\* begins with the signal set.
C16_Original ==
    [][\A w \in Workers : (InAttempt(w) /\ wpc'[w] = "sleep") => ~abort]_vars

\* C16, amended: the abort signal is tested once per turn of the attempt
\* loop, at its head.  After an attempt that failed within the budget with an
\* error whose text holds the words connection reset by peer the worker
\* sleeps without a test, also with the signal set; when the sleep ends its
\* next step is the test, and a worker that finds the signal set stops
\* without another attempt: every attempt follows a test that found the
\* signal unset.
C16_Step(w) ==
    /\ (wpc[w] = "sleep" /\ wpc'[w] # "sleep") => wpc'[w] = "check"
    /\ (wpc[w] = "check" /\ abort) => wpc'[w] \in {"check", "done"}
    /\ (wpc[w] # "attempt" /\ wpc'[w] = "attempt") => wpc[w] = "check" /\ ~abort
    /\ (wpc[w] # "copy" /\ wpc'[w] = "copy") => wpc[w] = "attempt"
    /\ (InAttempt(w) /\ connectionReset(wres'[w]) /\ attempts[w] < 3
            /\ wpc'[w] \notin {"attempt", "copy"}) => wpc'[w] = "sleep"

C16_TestAtLoopHeadOnly == [][\A w \in Workers : C16_Step(w)]_vars

C16_Witness ==
    /\ abort
    /\ Workers = {1}
    /\ wpc[1] = "sleep"
    /\ attempts[1] = 2
    /\ wseg[1] = 1
    /\ pcMain = "returned"

\* C17: staging files are released one by one during join.  While join
\* runs over the sorted list, the staging file of every segment before the one
\* in hand is gone and its payload is in the output, the staging file of every
\* later segment exists and its payload is not; the file of the segment in
\* hand exists until its removal, which comes only after its payload was
\* written.
C17_ReleaseState ==
    pcMain \in {"decrypt", "write", "remove"} =>
        /\ Len(joined) = (IF pcMain = "remove" THEN jidx ELSE jidx - 1)
        /\ \A i \in 1 .. Len(joined) : joined[i] = segments[i].SeqId
        /\ \A i \in 1 .. Len(segments) :
              staged[segments[i].path].exists <=> i >= jidx

C17_Release(s) ==
    (staged[s].exists /\ ~staged'[s].exists /\ pcMain \in {"decrypt", "write", "remove"}) =>
        /\ pcMain = "remove"
        /\ joined[Len(joined)] = s
        /\ segments[jidx].SeqId = s

C17_IncrementalRelease ==
    /\ [] C17_ReleaseState
    /\ [][\A s \in SeqIds : C17_Release(s)]_vars

C17_Witness ==
    /\ pcMain = "remove"
    /\ jidx = 2
    /\ Len(segments) = 3
    /\ ~staged[segments[1].path].exists
    /\ staged[segments[2].path].exists
    /\ staged[segments[3].path].exists
    /\ Len(joined) = 2

\* C18: wc.abort is closed at most once.  It is closed only by the
\* coordinator's step after a failing result, it stays closed, and the
\* coordinator never stands before close(wc.abort) with the channel already
\* closed: once it is closed the coordinator has left its loop for good.
C18_AbortState ==
    /\ pcMain = "abort" => ~abort
    /\ abort => pcMain \in {"closed", "failed", "cleanup", "entries", "unlink",
                        "rmdir", "returned"}
    /\ abort => firstErr.err # "" /\ received[firstErr.seqId] = 1

C18_AbortSetOnce ==
    /\ [] C18_AbortState
    /\ [][abort => abort']_vars
    /\ [][(~abort /\ abort') => pcMain = "abort" /\ mainErr.err # ""]_vars

C18_Witness ==
    /\ abort
    /\ pcMain = "returned"
    /\ \E w \in Workers : wpc[w] = "send" /\ wres[w] = "status"
    /\ firstErr.err = "reset"

\* processSegments is running: called and not returned
Fetching == pcMain \in {"process", "loop", "abort", "closed"}

\* C13 as stated: the fetch phase terminates.  With every attempt returning
\* and fair scheduling, processSegments, once called, returns: nil only with
\* every worker done and the observer's signal taken, otherwise the error of
\* a failing result; and until it returns some step is always possible.
C13_ReturnState ==
    /\ Fetching => psRet = Pending
    /\ psRet = NoErr =>
          /\ \A w \in Workers : wpc[w] = "done"
          /\ opc = "done" /\ fpc = "done" /\ segClosed
    /\ psRet \notin {Pending, NoErr} =>
          psRet = firstErr /\ psRet.err \in DownloadErrs

C13_FetchTerminates ==
    /\ [] C13_ReturnState
    /\ [](Fetching => ENABLED Next)
    /\ Fetching ~> (psRet # Pending)

\* C11 as stated: once wc.abort is closed every worker eventually
\* terminates (or the process has ended).
C11_WorkersEventuallyStop ==
    abort ~> (~Alive \/ \A w \in Workers : wpc[w] = "done")

\* C12 as stated: wc.downloadResult is closed at most once and no worker
\* sends on it, or is blocked sending on it, once it is closed: no run-time
\* panic of a channel operation is reachable.
C12_NoChannelPanic ==
    /\ panicked \notin {"close of closed channel", "send on closed channel"}
    /\ resClosed => \A w \in Workers : wpc[w] # "send"

\* C14 as stated: the feeder, once started, eventually closes wc.segments
\* (or the process has ended), and it pushes the descriptors in the order of
\* the list.
C14_FeederClosesQueue ==
    /\ [][\A w \in Workers :
            (wpc[w] = "recv" /\ wpc'[w] = "check") =>
                wseg'[w] = segments[fidx].SeqId /\ fidx' = fidx + 1]_vars
    /\ (fpc \in {"check", "push"}) ~> (~Alive \/ (fpc = "done" /\ segClosed))

====
